---- MODULE Spec2Model ----
(***************************************************************************)
(* A model of ponylist.py: the table extractor (table_to_list, get_rows),  *)
(* the row normaliser (remove_unknown, clean_name, process_rows) and the   *)
(* control flow of main.                                                   *)
(*                                                                         *)
(* Text is a sequence of one-character strings.  Python lists are objects: *)
(* `heap` holds the row objects (lists of text), `lists` holds the list    *)
(* objects whose elements are references to rows, and a variable such as   *)
(* `rows` is a reference into `lists`.                                     *)
(***************************************************************************)
EXTENDS Integers, Sequences, FiniteSets, TLC

VARIABLES
    pc,             \* position of the run
    args,           \* the parsed command line (argparse Namespace)
    scraping_urls,  \* main's local: a sequence of URLs, or Unbound
    idx,            \* get_rows: position of the for loop in its urls
    heap,           \* row objects: heap[r] is the list of fields of row r
    lists,          \* list objects: lists[l] is a sequence of row references
    rows,           \* the reference held by the name `rows`
    heap0,          \* heap as it was when process_rows was called
    rows0,          \* the reference the caller passed to process_rows
    original_count, \* main's local
    err,            \* the exception that ended the run, or "none"
    fetched,        \* the URLs handed to scrapekit.handle_url, in order
    pages,          \* the tables of the pages fetched successfully, in order
    failed_url,     \* the URL whose fetch or extraction raised
    stdout,         \* what was printed
    files,          \* the calls of write_file
    imgcalls,       \* the calls into the images module
    table,          \* table_to_list: its argument
    list_of_rows    \* table_to_list: its result

vars == <<pc, args, scraping_urls, idx, heap, lists, rows, heap0, rows0,
          original_count, err, fetched, pages, failed_url, stdout, files,
          imgcalls, table, list_of_rows>>

(***************************************************************************)
(* Bounds                                                                  *)
(***************************************************************************)
MaxTableRows == 3
MaxCells == 2
MaxRows == 2
MaxDataRows == 2
NumCategories == 3

(***************************************************************************)
(* Text                                                                    *)
(***************************************************************************)
Whitespace == {" ", "\t", "\n"}
Upper == {"A", "B", "S", "U", "N"}
Lower == {"a", "c", "d", "e", "g", "i", "l", "m", "n", "o", "r", "s", "t"}

\* unicode.encode('utf-8'): one byte per ASCII character, two for U+00E9.
Utf8Char(c) == IF c = "U+00E9" THEN <<"xC3", "xA9">> ELSE <<c>>

RECURSIVE encode(_)
encode(s) == IF s = <<>> THEN <<>> ELSE Utf8Char(Head(s)) \o encode(Tail(s))

RECURSIVE lstrip(_)
lstrip(s) ==
    IF s # <<>> /\ Head(s) \in Whitespace THEN lstrip(Tail(s)) ELSE s

RECURSIVE rstrip(_)
rstrip(s) ==
    IF s # <<>> /\ s[Len(s)] \in Whitespace
    THEN rstrip(SubSeq(s, 1, Len(s) - 1)) ELSE s

\* str.strip()
strip(s) == rstrip(lstrip(s))

StartsWith(s, sub) == Len(sub) <= Len(s) /\ SubSeq(s, 1, Len(sub)) = sub

\* `sub in s`
Contains(s, sub) ==
    \E i \in 0..(Len(s) - Len(sub)) : SubSeq(s, i + 1, i + Len(sub)) = sub

\* str.replace(old, new) for a non-empty old: left to right, non-overlapping.
RECURSIVE replace(_, _, _)
replace(s, old, new) ==
    IF s = <<>> THEN <<>>
    ELSE IF StartsWith(s, old)
         THEN new \o replace(SubSeq(s, Len(old) + 1, Len(s)), old, new)
         ELSE <<Head(s)>> \o replace(Tail(s), old, new)

Unnamed == <<"U", "n", "n", "a", "m", "e", "d">>
Sic == <<"[", "s", "i", "c", "]">>
NoneText == <<"N", "o", "n", "e">>

(***************************************************************************)
(* The parsed table.  A tr is [ths, tds]; a th is its text; a td is        *)
(* [text, anchors], anchors being the a elements found in the cell, each   *)
(* [href], a sequence holding the href attribute when there is one.        *)
(***************************************************************************)
NoAnchor == <<>>
AnchorNoHref == <<[href |-> <<>>]>>
AnchorTo(url) == <<[href |-> <<url>>]>>

\* cell.find('a'): the first a element, or None
find_a(cell) == IF cell.anchors = <<>> THEN <<>> ELSE <<cell.anchors[1]>>

\* a.attrs.get('href', 'None')
attrs_get_href(a) == IF a.href = <<>> THEN NoneText ELSE a.href[1]

\* the header: [cell.text.encode('utf-8').strip() for cell in table_rows[0].findAll('th')]
header_of(tr) == [j \in 1..Len(tr.ths) |-> strip(encode(tr.ths[j]))]

\* the body of `if cells:` for one tr
row_to_list(cells) ==
    LET utf8_row == [j \in 1..(Len(cells) - 1) |-> encode(cells[j].text)]
        a == find_a(cells[Len(cells)])
    IN  IF a # <<>>
        THEN Append(utf8_row, encode(attrs_get_href(a[1])))
        ELSE utf8_row

RECURSIVE data_rows(_, _)
data_rows(table_rows, i) ==
    IF i > Len(table_rows) THEN <<>>
    ELSE LET cells == table_rows[i].tds
         IN  (IF cells # <<>> THEN <<row_to_list(cells)>> ELSE <<>>)
             \o data_rows(table_rows, i + 1)

table_to_list_NoHeader(table_rows) == data_rows(table_rows, 1)

\* table_to_list for a table with at least one tr (table_rows[0] raises
\* IndexError otherwise, see Fetch)
table_to_list(table_rows) ==
    <<header_of(table_rows[1])>> \o data_rows(table_rows, 1)

(***************************************************************************)
(* Tables the extractor is tried on                                        *)
(***************************************************************************)
RowLetter(i) == IF i = 2 THEN "U+00E9" ELSE "a"
Digit(j) == IF j = 1 THEN "1" ELSE IF j = 2 THEN "2" ELSE "3"
ThText(j) == <<" ", "H", Digit(j), " ">>
TdText(i, j) == <<" ", RowLetter(i), Digit(j)>>
Url(i) == <<"/", RowLetter(i)>>

\* the shape of a tr: how many th's, how many td's, and what the last td
\* holds (no a element, an a element without href, an a element with href)
Shapes ==
    {s \in [nth : 0..MaxCells, ntd : 0..MaxCells,
            link : {"no_a", "no_href", "href"}] :
        s.ntd = 0 => s.link = "no_a"}

\* after the first tr: a tr of one th alone, or a tr without th
LaterShapes == {s \in Shapes : s.nth = 0 \/ (s.nth = 1 /\ s.ntd = 0)}

ThSeq(n) == [j \in 1..n |-> ThText(j)]

\* the i-th tr of a table, of shape s
MakeTr(i, s) ==
    [ths |-> ThSeq(s.nth),
     tds |-> [j \in 1..s.ntd |->
                [text |-> TdText(i, j),
                 anchors |-> IF j < s.ntd \/ s.link = "no_a" THEN NoAnchor
                             ELSE IF s.link = "no_href" THEN AnchorNoHref
                             ELSE AnchorTo(Url(i))]]]

\* the table whose first tr has shape `first` and whose later tr's have the
\* shapes `later`
MakeTable(first, later) ==
    <<MakeTr(1, first)>> \o [i \in 1..Len(later) |-> MakeTr(i + 1, later[i])]

None == "None"
\* a local variable of main: not yet assigned, or holding a value
Unbound == [bound |-> FALSE]
Bound(v) == [bound |-> TRUE, value |-> v]
NoArgs == [type |-> None]

(***************************************************************************)
(* The extractor alone: table_to_list on every table within the bounds     *)
(***************************************************************************)
IdleMain ==
    /\ args = NoArgs /\ scraping_urls = Unbound /\ idx = 0
    /\ heap = <<>> /\ lists = <<>> /\ rows = 0 /\ heap0 = <<>> /\ rows0 = 0
    /\ original_count = 0 /\ err = "none" /\ fetched = <<>> /\ pages = <<>>
    /\ failed_url = None /\ stdout = <<>> /\ files = <<>> /\ imgcalls = <<>>

InitExtract ==
    /\ pc = "extract"
    /\ \E n \in 1..MaxTableRows, first \in Shapes :
        \E later \in [1..(n - 1) -> LaterShapes] :
            table = MakeTable(first, later)
    /\ list_of_rows = <<>>
    /\ IdleMain

TableToList ==
    /\ pc = "extract"
    /\ list_of_rows' = table_to_list(table)
    /\ pc' = "extracted"
    /\ UNCHANGED <<args, scraping_urls, idx, heap, lists, rows, heap0, rows0,
                   original_count, err, fetched, pages, failed_url, stdout,
                   files, imgcalls, table>>

NextExtract == TableToList

SpecExtract == InitExtract /\ [][NextExtract]_vars

(***************************************************************************)
(* Claims about table_to_list (checked under SpecExtract)                  *)
(***************************************************************************)
\* the positions of the tr's of t that contain data cells, in table order
RECURSIVE DataTrs(_, _)
DataTrs(t, i) ==
    IF i > Len(t) THEN <<>>
    ELSE (IF t[i].tds # <<>> THEN <<i>> ELSE <<>>) \o DataTrs(t, i + 1)

\* the link field the specification gives a row whose last cell is `cell`
LinkField(cell) ==
    IF cell.anchors = <<>> THEN NoneText
    ELSE IF cell.anchors[1].href = <<>> THEN NoneText
    ELSE encode(cell.anchors[1].href[1])

\* C1 (as claimed): every tr with k >= 1 data cells yields a row of exactly k
\* fields, the text of the first k-1 cells and then one link field: the href
\* of the last cell's hyperlink, or "None" when the last cell has no
\* hyperlink.
C1_EveryDataRowHasLinkField ==
    pc = "extracted" =>
        LET d == DataTrs(table, 1)
        IN  /\ Len(list_of_rows) = Len(d) + 1
            /\ \A n \in 1..Len(d) :
                LET cells == table[d[n]].tds
                    k == Len(cells)
                    out == list_of_rows[n + 1]
                IN  /\ Len(out) = k
                    /\ \A j \in 1..(k - 1) : out[j] = encode(cells[j].text)
                    /\ out[k] = LinkField(cells[k])

\* C4: a table with N tr's that contain data cells yields exactly N+1 rows:
\* first the header (the stripped text of the th's of the first tr, with no
\* link field), then one row per tr that contains data cells, in table
\* order; a tr without data cells yields no row.
C4_HeaderThenOneRowPerDataTr ==
    pc = "extracted" =>
        LET d == DataTrs(table, 1)
        IN  /\ Len(list_of_rows) = Len(d) + 1
            /\ Len(list_of_rows[1]) = Len(table[1].ths)
            /\ \A j \in 1..Len(table[1].ths) :
                list_of_rows[1][j] = strip(encode(table[1].ths[j]))
            /\ \A n \in 1..Len(d) :
                LET cells == table[d[n]].tds
                    out == list_of_rows[n + 1]
                IN  /\ Len(out) >= Len(cells) - 1
                    /\ \A j \in 1..(Len(cells) - 1) :
                        out[j] = encode(cells[j].text)

\* a header tr, a tr without data cells, then a tr with two data cells
C4_Witness ==
    /\ pc = "extracted"
    /\ Len(table) = 3
    /\ table[1].ths # <<>> /\ table[1].tds = <<>>
    /\ table[2].tds = <<>>
    /\ Len(table[3].tds) = 2
    /\ Len(list_of_rows) = 2
    /\ list_of_rows[1] = <<<<"H", "1">>, <<"H", "2">>>>

(***************************************************************************)
(* The row normaliser                                                      *)
(***************************************************************************)
\* scrapekit.fix_camelcase(name, sep): a lower-case letter directly followed
\* by an upper-case one is a run-on; the separator and a space go between.
RECURSIVE fix_camelcase(_, _)
fix_camelcase(name, sep) ==
    IF Len(name) < 2 THEN name
    ELSE IF name[1] \in Lower /\ name[2] \in Upper
         THEN <<name[1]>> \o sep \o <<" ">> \o fix_camelcase(Tail(name), sep)
         ELSE <<name[1]>> \o fix_camelcase(Tail(name), sep)

\* scrapekit.strip_label(name): drops a leading "Label: ".
strip_label(name) ==
    LET AfterLabel[i \in 1..(Len(name) + 1)] ==
            IF i + 1 > Len(name) THEN name
            ELSE IF name[i] = ":" /\ name[i + 1] = " "
                 THEN SubSeq(name, i + 2, Len(name))
                 ELSE AfterLabel[i + 1]
    IN  AfterLabel[1]

clean_name(name) ==
    LET n1 == fix_camelcase(name, <<":">>)
        n2 == replace(n1, Sic, <<>>)
        n3 == replace(n2, <<"/">>, <<"o", "r">>)
    IN  strip(n3)

\* r[0] raises IndexError on a row without fields
HasEmptyRow(h, rs) == \E i \in 1..Len(rs) : h[rs[i]] = <<>>

Known(h, r) == ~Contains(h[r][1], Unnamed)

remove_unknown_AfterCleaning(h, l, rws) ==
    IF HasEmptyRow(h, l[rws])
    THEN [err |-> "IndexError", lists |-> l, rows |-> rws]
    ELSE [err |-> "none",
          lists |-> Append(l, SelectSeq(l[rws],
                        LAMBDA r : ~Contains(clean_name(h[r][1]), Unnamed))),
          rows |-> Len(l) + 1]

\* remove_unknown(rows): a new list of the rows whose field 0 has no "Unnamed"
remove_unknown(h, l, rws) ==
    IF HasEmptyRow(h, l[rws])
    THEN [err |-> "IndexError", lists |-> l, rows |-> rws]
    ELSE [err |-> "none",
          lists |-> Append(l, SelectSeq(l[rws], LAMBDA r : Known(h, r))),
          rows |-> Len(l) + 1]

RECURSIVE clean_rows_AllFields(_, _, _)
clean_rows_AllFields(h, rs, i) ==
    IF i > Len(rs) THEN [err |-> "none", heap |-> h]
    ELSE IF h[rs[i]] = <<>> THEN [err |-> "IndexError", heap |-> h]
    ELSE clean_rows_AllFields(
            [h EXCEPT ![rs[i]] = [j \in 1..Len(@) |-> clean_name(@[j])]],
            rs, i + 1)

\* for r in rows: r[0] = clean_name(r[0])      (from the i-th row on)
RECURSIVE clean_rows(_, _, _)
clean_rows(h, rs, i) ==
    IF i > Len(rs) THEN [err |-> "none", heap |-> h]
    ELSE IF h[rs[i]] = <<>> THEN [err |-> "IndexError", heap |-> h]
    ELSE clean_rows([h EXCEPT ![rs[i]][1] = clean_name(@)], rs, i + 1)

\* for r in rows: r[0] = scrapekit.strip_label(r[0])
RECURSIVE strip_rows(_, _, _)
strip_rows(h, rs, i) ==
    IF i > Len(rs) THEN [err |-> "none", heap |-> h]
    ELSE IF h[rs[i]] = <<>> THEN [err |-> "IndexError", heap |-> h]
    ELSE strip_rows([h EXCEPT ![rs[i]][1] = strip_label(@)], rs, i + 1)

names_only_WholeRow(h, l, rws) ==
    LET rs == l[rws]
    IN  [heap |-> h \o [i \in 1..Len(rs) |-> h[rs[i]]],
         lists |-> Append(l, [i \in 1..Len(rs) |-> Len(h) + i]),
         rows |-> Len(l) + 1]

\* rows = [[r[0]] for r in rows]: new row objects in a new list
names_only(h, l, rws) ==
    LET rs == l[rws]
    IN  [heap |-> h \o [i \in 1..Len(rs) |-> <<h[rs[i]][1]>>],
         lists |-> Append(l, [i \in 1..Len(rs) |-> Len(h) + i]),
         rows |-> Len(l) + 1]

\* process_rows(rows, args): the heap and the lists it leaves, the reference
\* it returns and the exception it raises, if any
process_rows(h, l, rws, a) ==
    LET raise(e, hh, ll) == [err |-> e, heap |-> hh, lists |-> ll, rows |-> rws]
        s1 == IF a.known THEN remove_unknown(h, l, rws)
              ELSE [err |-> "none", lists |-> l, rows |-> rws]
        s2 == clean_rows(h, s1.lists[s1.rows], 1)
        s3 == IF a.strip_labels THEN strip_rows(s2.heap, s1.lists[s1.rows], 1)
              ELSE s2
        s4 == IF a.names THEN names_only(s3.heap, s1.lists, s1.rows)
              ELSE [heap |-> s3.heap, lists |-> s1.lists, rows |-> s1.rows]
    IN  IF s1.err # "none" THEN raise(s1.err, h, l)
        ELSE IF s2.err # "none" THEN raise(s2.err, s2.heap, s1.lists)
        ELSE IF s3.err # "none" THEN raise(s3.err, s3.heap, s1.lists)
        ELSE [err |-> "none", heap |-> s4.heap, lists |-> s4.lists,
              rows |-> s4.rows]

(***************************************************************************)
(* Rows the normaliser is tried on                                         *)
(***************************************************************************)
NameUnnamed == <<"U", "n", "n", "a", "m", "e", "d", " ", "#", "3">>
NameNamed == <<"N", "a", "m", "e", "d">>
NameSicInside == <<"U", "n", "n", "[", "s", "i", "c", "]", "a", "m", "e", "d">>
NameSlash == <<" ", "A", "/", "B">>
NameRunOn == <<"B", "a", "t", "A", "n", "n", " ">>
NameLower == <<"u", "n", "n", "a", "m", "e", "d">>
Names == {NameUnnamed, NameNamed, NameSicInside, NameSlash, NameRunOn, NameLower}

\* a field other than the name, holding what the name rules look for
OtherField == <<"U", "n", "n", "a", "m", "e", "d", "/", "A", "B">>

InputRows == {<<>>} \cup {<<n>> : n \in Names} \cup {<<n, OtherField>> : n \in Names}

RECURSIVE RowSeqsOfLen(_)
RowSeqsOfLen(n) ==
    IF n = 0 THEN {<<>>}
    ELSE {Append(s, r) : s \in RowSeqsOfLen(n - 1), r \in InputRows}

\* the sequences of 0 to m rows
RowSeqsUpTo(m) == UNION {RowSeqsOfLen(n) : n \in 0..m}

Options ==
    [type : {None}, known : BOOLEAN, strip_labels : BOOLEAN, names : BOOLEAN,
     images : {FALSE}, format : {None}, verbose : {FALSE}, quiet : {FALSE}]

(***************************************************************************)
(* The normaliser alone: process_rows on every row sequence in the bounds  *)
(***************************************************************************)
InitProcess ==
    /\ pc = "process_rows"
    /\ args \in Options
    /\ heap \in RowSeqsUpTo(MaxRows)
    /\ lists = <<[i \in 1..Len(heap) |-> i]>>
    /\ rows = 1
    /\ heap0 = heap
    /\ rows0 = rows
    /\ err = "none"
    /\ scraping_urls = Unbound /\ idx = 0 /\ original_count = 0
    /\ fetched = <<>> /\ pages = <<>> /\ failed_url = None
    /\ stdout = <<>> /\ files = <<>> /\ imgcalls = <<>>
    /\ table = <<>> /\ list_of_rows = <<>>

ProcessRows ==
    /\ pc = "process_rows"
    /\ LET res == process_rows(heap, lists, rows, args)
       IN  /\ heap' = res.heap
           /\ lists' = res.lists
           /\ rows' = res.rows
           /\ err' = res.err
           /\ pc' = IF res.err = "none" THEN "returned" ELSE "raised"
    /\ UNCHANGED <<args, scraping_urls, idx, heap0, rows0, original_count,
                   fetched, pages, failed_url, stdout, files, imgcalls,
                   table, list_of_rows>>

NextProcess == ProcessRows

SpecProcess == InitProcess /\ [][NextProcess]_vars

(***************************************************************************)
(* Claims about process_rows (checked under SpecProcess)                   *)
(***************************************************************************)
\* the list the caller passed, as get_rows builds it: every row, in order
CallerRows == [i \in 1..Len(heap0) |-> i]

\* the name process_rows leaves in field 0 of a row it keeps
Normalised(name) ==
    IF args.strip_labels THEN strip_label(clean_name(name)) ELSE clean_name(name)

Dropped(r) == args.known /\ Contains(heap0[r][1], Unnamed)

\* the caller's rows that are to survive, in their order
RECURSIVE Survivors(_)
Survivors(i) ==
    IF i > Len(heap0) THEN <<>>
    ELSE (IF Dropped(i) THEN <<>> ELSE <<i>>) \o Survivors(i + 1)

\* a call that returned
Returned == pc = "returned"

\* C3 (as claimed): after the call, the caller's row sequence and every row
\* in it are as they were before the call.
C3_CallerRowsUnchanged ==
    Returned =>
        /\ lists[rows0] = CallerRows
        /\ \A r \in 1..Len(heap0) : heap[r] = heap0[r]

\* C3 (amended): process_rows leaves the caller's sequence itself as it was
\* and changes no field but field 0 of a row, whether it returns or raises;
\* when it returns, field 0 of every row that survives the known filter has
\* been overwritten in place with its normalised name, and the rows the
\* filter dropped are as they were.
C3_OnlyNameFieldRewritten ==
    /\ (Returned \/ pc = "raised") =>
        /\ lists[rows0] = CallerRows
        /\ \A r \in 1..Len(heap0) :
            /\ Len(heap[r]) = Len(heap0[r])
            /\ \A j \in 2..Len(heap0[r]) : heap[r][j] = heap0[r][j]
    /\ Returned =>
        \A r \in 1..Len(heap0) :
            heap[r][1] = IF Dropped(r) THEN heap0[r][1]
                         ELSE Normalised(heap0[r][1])

\* a kept row whose name was rewritten under the caller, its other field
\* kept, next to a dropped row left alone
C3_Witness ==
    /\ pc = "returned"
    /\ args.known
    /\ heap0 = <<<<NameSlash, OtherField>>, <<NameUnnamed, OtherField>>>>
    /\ heap[1] = <<<<"A", "o", "r", "B">>, OtherField>>
    /\ heap[2] = heap0[2]

\* C5: with known set, a row survives exactly when its field 0 as passed in
\* (before cleaning) does not contain "Unnamed"; the survivors keep their
\* order; with known unset every row survives.
C5_SurvivesIffNotUnnamed ==
    Returned =>
        LET kept == Survivors(1)
            out == lists[rows]
        IN  /\ ~args.known => Len(kept) = Len(heap0)
            /\ Len(out) = Len(kept)
            /\ \A i \in 1..Len(kept) :
                IF args.names
                THEN heap[out[i]][1] = Normalised(heap0[kept[i]][1])
                ELSE out[i] = kept[i]

\* "Unnamed #3" is dropped; "Unn[sic]amed", which only cleaning turns into
\* "Unnamed", is kept
C5_Witness ==
    /\ pc = "returned"
    /\ args.known /\ ~args.names
    /\ heap0 = <<<<NameUnnamed>>, <<NameSicInside, OtherField>>>>
    /\ lists[rows] = <<2>>
    /\ heap[2][1] = Unnamed

\* C9: with names set, every returned row has exactly one field, the
\* normalised field 0 of the row it comes from; the rows are as many and in
\* the same order as the call without names returns.
C9_NamesOnlySingleField ==
    (Returned /\ args.names) =>
        LET out == lists[rows]
            kept == Survivors(1)
            ref == process_rows(heap0, <<CallerRows>>, 1,
                                [args EXCEPT !.names = FALSE])
        IN  /\ Len(out) = Len(kept)
            /\ \A i \in 1..Len(out) :
                /\ Len(heap[out[i]]) = 1
                /\ heap[out[i]][1] = Normalised(heap0[kept[i]][1])
            /\ ref.err = "none"
            /\ Len(ref.lists[ref.rows]) = Len(out)
            /\ \A i \in 1..Len(out) :
                heap[out[i]][1] = ref.heap[ref.lists[ref.rows][i]][1]

\* "BatAnn " with a second field becomes the single field "Ann"
C9_Witness ==
    /\ pc = "returned"
    /\ args.names /\ args.strip_labels
    /\ heap0 = <<<<NameNamed>>, <<NameRunOn, OtherField>>>>
    /\ Len(lists[rows]) = 2
    /\ heap[lists[rows][1]] = <<NameNamed>>
    /\ heap[lists[rows][2]] = <<<<"A", "n", "n">>>>

(***************************************************************************)
(* table_to_list followed by process_rows (checked under SpecExtract)      *)
(***************************************************************************)
\* C10 (as claimed): every row table_to_list emits has at least one field,
\* so process_rows on its output raises under no combination of options.
C10_EveryRowHasAField ==
    pc = "extracted" =>
        /\ \A i \in 1..Len(list_of_rows) : Len(list_of_rows[i]) >= 1
        /\ \A a \in Options :
            process_rows(list_of_rows,
                         <<[i \in 1..Len(list_of_rows) |-> i]>>, 1, a).err
                = "none"

(***************************************************************************)
(* main                                                                    *)
(***************************************************************************)
AllCategories ==
    <<"unicorns", "pegasus", "earthponies", "crystal", "elders", "foals",
      "mentioned", "comic", "wonderbolts", "alicorns", "prose", "other">>

AllUrls ==
    <<"http://mlp.wikia.com/wiki/List_of_ponies/Unicorn_ponies",
      "http://mlp.wikia.com/wiki/List_of_ponies/Pegasus_ponies",
      "http://mlp.wikia.com/wiki/List_of_ponies/Earth_ponies",
      "http://mlp.wikia.com/wiki/List_of_ponies/Crystal_Ponies",
      "http://mlp.wikia.com/wiki/List_of_ponies/Elders",
      "http://mlp.wikia.com/wiki/List_of_ponies/Foals",
      "http://mlp.wikia.com/wiki/List_of_ponies/Mentioned_ponies",
      "http://mlp.wikia.com/wiki/List_of_comic_ponies",
      "http://mlp.wikia.com/wiki/List_of_Wonderbolts",
      "http://mlp.wikia.com/wiki/List_of_ponies/Alicorn_ponies",
      "http://mlp.wikia.com/wiki/List_of_prose_ponies",
      "http://mlp.wikia.com/wiki/List_of_non-pony_characters">>

\* the first NumCategories entries of the dictionary
Categories == {AllCategories[i] : i \in 1..NumCategories}

URLS ==
    [c \in Categories |->
        AllUrls[CHOOSE i \in 1..NumCategories : AllCategories[i] = c]]

\* URLS.values(): the dictionary's order, which is fixed for a run
URLS_values == [i \in 1..NumCategories |-> URLS[AllCategories[i]]]

\* what parse_args accepts
ArgsSet ==
    {a \in [type : Categories \cup {"all"}, known : BOOLEAN,
            strip_labels : BOOLEAN, names : BOOLEAN, images : BOOLEAN,
            format : {None, "txt", "csv"}, verbose : BOOLEAN,
            quiet : BOOLEAN] : ~(a.verbose /\ a.quiet)}

\* the pages a fetch may return: a header tr and d >= 1 data tr's of two
\* cells, the odd ones unnamed and with an image link, the even ones named
\* and without; a table without header cells; a table without any tr
SampleTr(i) ==
    [ths |-> <<>>,
     tds |-> <<[text |-> IF i % 2 = 1 THEN NameUnnamed ELSE NameNamed,
                anchors |-> NoAnchor],
               [text |-> <<"i", "m", "g">>,
                anchors |-> IF i % 2 = 1 THEN AnchorTo(Url(i)) ELSE NoAnchor]>>]

SampleTable(d) ==
    <<[ths |-> ThSeq(2), tds |-> <<>>]>> \o [i \in 1..d |-> SampleTr(i)]

HeaderlessTable == <<SampleTr(1)>>

PageOutcomes ==
    {[kind |-> "fetch_error"], [kind |-> "no_table"]}
    \cup {[kind |-> "table", trs |-> t] :
            t \in {<<>>, HeaderlessTable} \cup
                  {SampleTable(d) : d \in 1..MaxDataRows}}

RowValues(h, l, rws) == [i \in 1..Len(l[rws]) |-> h[l[rws][i]]]

Init ==
    /\ pc = "main"
    /\ args \in ArgsSet
    /\ scraping_urls = Unbound
    /\ idx = 0
    /\ heap = <<>> /\ lists = <<>> /\ rows = 0 /\ heap0 = <<>> /\ rows0 = 0
    /\ original_count = 0 /\ err = "none" /\ fetched = <<>> /\ pages = <<>>
    /\ failed_url = None /\ stdout = <<>> /\ files = <<>> /\ imgcalls = <<>>
    /\ table = <<>> /\ list_of_rows = <<>>

\* if args.type == 'all': if scrapekit.confirm(...): ... else: ...
ChooseUrls ==
    /\ pc = "main"
    /\ IF args.type = "all"
       THEN \E answer \in BOOLEAN :
                scraping_urls' = IF answer THEN Bound(URLS_values)
                                 ELSE scraping_urls
       ELSE scraping_urls' = Bound(<<URLS[args.type]>>)
    /\ pc' = "get_rows"
    /\ UNCHANGED <<args, idx, heap, lists, rows, heap0, rows0, original_count,
                   err, fetched, pages, failed_url, stdout, files, imgcalls,
                   table, list_of_rows>>

\* rows = get_rows(scraping_urls): reading the unbound local raises; else
\* get_rows starts with rows = []
CallGetRows ==
    /\ pc = "get_rows"
    /\ IF ~scraping_urls.bound
       THEN /\ err' = "UnboundLocalError"
            /\ pc' = "done"
            /\ UNCHANGED <<lists, rows, idx>>
       ELSE /\ lists' = Append(lists, <<>>)
            /\ rows' = Len(lists) + 1
            /\ idx' = 1
            /\ pc' = "fetch"
            /\ err' = err
    /\ UNCHANGED <<args, scraping_urls, heap, heap0, rows0, original_count,
                   fetched, pages, failed_url, stdout, files, imgcalls,
                   table, list_of_rows>>

raise_AndGoOn(e, url) ==
    /\ err' = e
    /\ failed_url' = url
    /\ pc' = pc
    /\ idx' = idx + 1

\* an exception in get_rows: nothing catches it, the run ends
raise(e, url) ==
    /\ err' = e
    /\ failed_url' = url
    /\ pc' = "done"
    /\ idx' = idx

extend_SkipRepeatedHeader(h, l, rws, new) ==
    LET add == IF l[rws] = <<>> THEN new ELSE Tail(new)
    IN  [heap |-> h \o add,
         lists |-> [l EXCEPT ![rws] = @ \o [i \in 1..Len(add) |-> Len(h) + i]]]

\* rows.extend(new): the new row objects are appended to the list in place
extend(h, l, rws, new) ==
    [heap |-> h \o new,
     lists |-> [l EXCEPT ![rws] = @ \o [i \in 1..Len(new) |-> Len(h) + i]]]

\* one turn of get_rows' loop
Fetch ==
    /\ pc = "fetch"
    /\ idx <= Len(scraping_urls.value)
    /\ LET url == scraping_urls.value[idx]
       IN  /\ stdout' = Append(stdout, [line |-> "Scraping", url |-> url])
           /\ fetched' = Append(fetched, url)
           /\ \E page \in PageOutcomes :
                IF page.kind = "fetch_error"
                THEN /\ raise("FetchError", url)
                     /\ UNCHANGED <<heap, lists, pages, table, list_of_rows>>
                ELSE IF page.kind = "no_table"
                THEN /\ raise("AttributeError", url)
                     /\ UNCHANGED <<heap, lists, pages, table, list_of_rows>>
                ELSE IF page.trs = <<>>
                THEN /\ raise("IndexError", url)
                     /\ table' = page.trs
                     /\ UNCHANGED <<heap, lists, pages, list_of_rows>>
                ELSE LET new == table_to_list(page.trs)
                         ext == extend(heap, lists, rows, new)
                     IN  /\ table' = page.trs
                         /\ list_of_rows' = new
                         /\ heap' = ext.heap
                         /\ lists' = ext.lists
                         /\ pages' = Append(pages, page.trs)
                         /\ idx' = idx + 1
                         /\ UNCHANGED <<pc, err, failed_url>>
    /\ UNCHANGED <<args, scraping_urls, rows, heap0, rows0, original_count,
                   files, imgcalls>>

\* return rows; original_count = len(rows)
GetRowsReturn ==
    /\ pc = "fetch"
    /\ idx > Len(scraping_urls.value)
    /\ original_count' = Len(lists[rows])
    /\ pc' = "process_rows"
    /\ UNCHANGED <<args, scraping_urls, idx, heap, lists, rows, heap0, rows0,
                   err, fetched, pages, failed_url, stdout, files, imgcalls,
                   table, list_of_rows>>

\* rows = process_rows(rows=rows, args=args)
MainProcessRows ==
    /\ pc = "process_rows"
    /\ heap0' = heap
    /\ rows0' = rows
    /\ LET res == process_rows(heap, lists, rows, args)
       IN  /\ heap' = res.heap
           /\ lists' = res.lists
           /\ rows' = res.rows
           /\ err' = res.err
           /\ pc' = IF res.err = "none" THEN "filework" ELSE "done"
    /\ UNCHANGED <<args, scraping_urls, idx, original_count, fetched, pages,
                   failed_url, stdout, files, imgcalls, table, list_of_rows>>

img_dir == <<"./data/", "images_", args.type, "/">>

Images_NoExit ==
    /\ pc = "filework"
    /\ args.images
    /\ imgcalls' = <<[fn |-> "get_images",
                      rows |-> RowValues(heap, lists, rows), dir |-> img_dir],
                     [fn |-> "mk_img_sheet", dir |-> img_dir]>>
    /\ pc' = "summary"
    /\ UNCHANGED <<args, scraping_urls, idx, heap, lists, rows, heap0, rows0,
                   original_count, err, fetched, pages, failed_url, stdout,
                   files, table, list_of_rows>>

\* if args.images: get_images, mk_img_sheet, exit()
Images ==
    /\ pc = "filework"
    /\ args.images
    /\ imgcalls' = <<[fn |-> "get_images",
                      rows |-> RowValues(heap, lists, rows), dir |-> img_dir],
                     [fn |-> "mk_img_sheet", dir |-> img_dir]>>
    /\ pc' = "done"
    /\ UNCHANGED <<args, scraping_urls, idx, heap, lists, rows, heap0, rows0,
                   original_count, err, fetched, pages, failed_url, stdout,
                   files, table, list_of_rows>>

\* the info and summary section
Summary ==
    /\ pc = "summary" \/ (pc = "filework" /\ ~args.images)
    /\ LET rs == RowValues(heap, lists, rows)
           shown == IF args.verbose
                    THEN [i \in 1..Len(rs) |-> [line |-> "pprint", row |-> rs[i]]]
                    ELSE <<>>
           summary == IF ~args.quiet
                      THEN <<[line |-> "SUMMARY", type |-> args.type,
                              scraped |-> original_count, kept |-> Len(rs)]>>
                      ELSE <<>>
       IN  stdout' = stdout \o shown \o summary
    /\ pc' = "write"
    /\ UNCHANGED <<args, scraping_urls, idx, heap, lists, rows, heap0, rows0,
                   original_count, err, fetched, pages, failed_url, files,
                   imgcalls, table, list_of_rows>>

\* the name write_file gives the file
filename ==
    [components |->
        <<"ponylist", args.type>>
        \o (IF args.names THEN <<"names">> ELSE <<>>)
        \o (IF args.strip_labels THEN <<"striplabels">> ELSE <<>>)
        \o (IF args.known THEN <<"known">> ELSE <<>>),
     extension |-> args.format]

\* if args.format: write_file(rows, args)
WriteFile ==
    /\ pc = "write"
    /\ IF args.format # None
       THEN /\ stdout' = Append(stdout, [line |-> "Writing to", name |-> filename])
            /\ files' = Append(files, [writer |-> args.format,
                                       name |-> filename,
                                       rows |-> RowValues(heap, lists, rows)])
       ELSE UNCHANGED <<stdout, files>>
    /\ pc' = "done"
    /\ UNCHANGED <<args, scraping_urls, idx, heap, lists, rows, heap0, rows0,
                   original_count, err, fetched, pages, failed_url, imgcalls,
                   table, list_of_rows>>

Next ==
    \/ ChooseUrls
    \/ CallGetRows
    \/ Fetch
    \/ GetRowsReturn
    \/ MainProcessRows
    \/ Images
    \/ Summary
    \/ WriteFile

Spec == Init /\ [][Next]_vars

(***************************************************************************)
(* Claims about main and get_rows (checked under Spec)                     *)
(***************************************************************************)
Declined == args.type = "all" /\ pc # "main" /\ ~scraping_urls.bound

\* C2 (as claimed): when the selector is "all" and the confirmation is
\* declined, the run ends without an error and without fetching any URL.
C2_DeclinedAllEndsCleanly ==
    (Declined /\ pc = "done") =>
        /\ err = "none"
        /\ fetched = <<>>
        /\ heap = <<>>

\* the rows the pages from the i-th on contribute, page by page
RECURSIVE RowsOfPages(_)
RowsOfPages(i) ==
    IF i > Len(pages) THEN <<>>
    ELSE table_to_list(pages[i]) \o RowsOfPages(i + 1)

RECURSIVE CountOfPages(_)
CountOfPages(i) ==
    IF i > Len(pages) THEN 0
    ELSE 1 + Len(DataTrs(pages[i], 1)) + CountOfPages(i + 1)

\* C6: what get_rows returns is the concatenation of table_to_list of each
\* page's table, in the order of the URLs given, every page's header row
\* kept; its length is the sum of the pages' row counts.
C6_RowsAreConcatenationInUrlOrder ==
    pc = "process_rows" =>
        /\ fetched = scraping_urls.value
        /\ Len(pages) = Len(fetched)
        /\ RowValues(heap, lists, rows) = RowsOfPages(1)
        /\ Len(lists[rows]) = CountOfPages(1)
        /\ original_count = CountOfPages(1)

\* two pages of a header and two data rows each give six rows, two of them
\* headers; a third page of a header and one data row adds two more
C6_Witness ==
    /\ pc = "process_rows"
    /\ pages = <<SampleTable(2), SampleTable(2), SampleTable(1)>>
    /\ Len(lists[rows]) = 8
    /\ heap[lists[rows][1]] = <<<<"H", "1">>, <<"H", "2">>>>
    /\ heap[lists[rows][4]] = heap[lists[rows][1]]
    /\ heap[lists[rows][5]] = <<NameUnnamed, Url(1)>>
    /\ heap[lists[rows][6]] = <<NameNamed>>
    /\ heap[lists[rows][7]] = heap[lists[rows][1]]

\* C7: once the fetch or the extraction of a URL has raised, the run is over:
\* that URL is the last one fetched, the URLs before it are the only others
\* fetched, process_rows has not run, nothing was handed to the image steps,
\* no summary was printed and no file was written.
C7_FirstFailureEndsTheRun ==
    failed_url # None =>
        /\ pc = "done"
        /\ err # "none"
        /\ fetched = SubSeq(scraping_urls.value, 1, Len(fetched))
        /\ fetched[Len(fetched)] = failed_url
        /\ Len(pages) = Len(fetched) - 1
        /\ rows0 = 0
        /\ imgcalls = <<>>
        /\ files = <<>>
        /\ \A i \in 1..Len(stdout) : stdout[i].line = "Scraping"

\* the second of three URLs fails after the first was fetched and extracted
C7_Witness ==
    /\ failed_url # None
    /\ Len(scraping_urls.value) = 3
    /\ Len(fetched) = 2
    /\ pages = <<SampleTable(2)>>
    /\ Len(heap) = 3
    /\ pc = "done"

\* C8: with images set, no file is ever written and neither rows nor a
\* summary are printed; once process_rows has returned, the processed rows
\* go to get_images, then mk_img_sheet is called, and the run is over.
C8_ImagesModeSkipsOutput ==
    args.images =>
        /\ files = <<>>
        /\ \A i \in 1..Len(stdout) : stdout[i].line = "Scraping"
        /\ pc \notin {"summary", "write"}
        /\ imgcalls # <<>> => pc = "done"
        /\ (pc = "done" /\ err = "none") =>
            /\ Len(imgcalls) = 2
            /\ imgcalls[1].fn = "get_images"
            /\ imgcalls[1].rows = RowValues(heap, lists, rows)
            /\ imgcalls[2].fn = "mk_img_sheet"

\* images together with a format and verbose: the rows went to the image
\* steps and the run ended with nothing written
C8_Witness ==
    /\ args.images /\ args.format = "csv" /\ args.verbose
    /\ pc = "done"
    /\ err = "none"
    /\ Len(imgcalls) = 2
    /\ Len(imgcalls[1].rows) = 3
    /\ files = <<>>

====
